---- MODULE Spec2Model ----
(***************************************************************************)
(* Client-side data-access layer of the blog application                  *)
(* (src/src/lib/hooks.ts): the fetching accessors usePosts, usePost,      *)
(* useCategories and useComments, the realtime comment subscription, the *)
(* comment write operations addComment / deleteComment, and useAuth.      *)
(*                                                                         *)
(* One accessor instance is examined per behaviour (variable hook): the   *)
(* accessors share no state, each owns its own useState slice.  A render  *)
(* together with the effects it schedules is one step; every await of the *)
(* source is a step boundary.                                              *)
(***************************************************************************)
EXTENDS Integers, Sequences, FiniteSets

\* ---------------------------------------------------------------- bounds
MaxOps == 3          \* backend requests one instance may start
MaxPage == 2         \* pages 1..MaxPage
MaxPageSize == 1     \* page sizes 1..MaxPageSize (and the default)
MaxPending == 1      \* realtime notifications in transit per post

\* ------------------------------------------------------ program constants
DefaultPage == 1
DefaultPageSize == 10

Null == "null"
PostIds == {"p1", "p2"}
Slugs == {"a", "b"}
Hooks == {"usePosts", "usePost", "useCategories", "useComments"}
Pages == 1..MaxPage
PageSizes == (1..MaxPageSize) \cup {DefaultPageSize}
Outcomes == {"ok", "error", "throw"}
UserIds == {"u1", "u2"}
CommentIds == {"k1"}
Contents == {"hello"}

VARIABLES
  hook,           \* which accessor this component instance uses
  phase,          \* "rendered" (useState done, effects pending), "mounted", "destroyed"
  state,          \* the accessor's ResponseState: [data, loading, error]
  page, pageSize, \* arguments of usePosts
  slug,           \* argument of usePost
  postId,         \* argument of useComments
  requests,       \* select queries awaiting their settlement
  nextReq,        \* number of the next fetch this instance starts
  channels,       \* the realtime channels this instance has subscribed
  pendingEvents,  \* INSERT notifications in transit, per post id
  currentUser,    \* the identity the backend client currently holds
  calls,          \* the addComment / deleteComment calls made so far, in order
  writes,         \* the insert / delete requests sent to the backend, in order
  session,        \* useAuth: session
  user,           \* useAuth: user
  profile,        \* useAuth: profile
  loading,        \* useAuth: loading
  listener,       \* useAuth: its onAuthStateChange listener is registered
  sessionRequest, \* useAuth: the getSession call: "none", "pending", "resolved", "rejected"
  authEvents,     \* auth-state-change notifications in transit, per session
  header,         \* Header: its state [user, loading]
  instance,       \* Header: the getSession request of the mounted instance (0: none)
  headerPending,  \* Header: getSession requests pending, of any instance
  headerListeners \* Header: instances whose listener is registered at the auth client

vars == <<hook, phase, state, page, pageSize, slug, postId, requests, nextReq,
          channels, pendingEvents, currentUser, calls, writes,
          session, user, profile, loading, listener, sessionRequest, authEvents,
          header, instance, headerPending, headerListeners>>
headerVars == <<header, instance, headerPending, headerListeners>>
authVars == <<session, user, profile, loading, listener, sessionRequest, authEvents>>
fetchVars == <<state, requests, nextReq>>
writeVars == <<currentUser, calls, writes>>

\* the instance may start n more backend requests: a fetch is one request,
\* a write call two (the identity lookup and the insert or delete)
WithinBudget(n) == (nextReq - 1) + 2 * Len(calls) + n <= MaxOps

\* ------------------------------------------------------------------ data
NoKey == <<>>
EmptyList == [kind |-> "empty", key |-> NoKey, req |-> 0]
NullData == [kind |-> "null", key |-> NoKey, req |-> 0]
\* the payload the backend returned for request r
Payload(r) == [kind |-> "rows", key |-> r.key, req |-> r.id]

ResponseState(d, l, e) == [data |-> d, loading |-> l, error |-> e]

InitialState(h) ==
  IF h = "usePost" THEN ResponseState(NullData, TRUE, Null)
                   ELSE ResponseState(EmptyList, TRUE, Null)

\* an error string taken from the failure instead of the fixed one
ErrorMessageOfCause(h) == "PGRST116"

ErrorMessage(h) ==
  CASE h = "usePosts" -> "Failed to load posts"
    [] h = "usePost" -> "Failed to load post"
    [] h = "useCategories" -> "Failed to load categories"
    [] h = "useComments" -> "Failed to load comments"

\* the dependency key of the accessor's effect, as currently rendered
Key(h) ==
  CASE h = "usePosts" -> <<page, pageSize>>
    [] h = "usePost" -> <<slug>>
    [] h = "useCategories" -> NoKey
    [] h = "useComments" -> <<postId>>
    [] h = "useAuth" -> <<user.id>>

\* ---------------------------------------------------------------- queries
RangeFrom(p, ps) == (p - 1) * ps
\* an exclusive upper end handed to the inclusive range()
RangeToExclusive(p, ps) == RangeFrom(p, ps) + ps
RangeTo(p, ps) == RangeFrom(p, ps) + ps - 1

Query(h, k) ==
  CASE h = "usePosts" ->
         [table |-> "posts", eq |-> <<"published", "true">>,
          order |-> <<"published_at", "desc">>,
          range |-> <<RangeFrom(k[1], k[2]), RangeTo(k[1], k[2])>>, single |-> FALSE]
    [] h = "usePost" ->
         [table |-> "posts", eq |-> <<"slug", k[1]>>,
          order |-> <<>>, range |-> <<>>, single |-> TRUE]
    [] h = "useCategories" ->
         [table |-> "categories", eq |-> <<>>,
          order |-> <<"name", "asc">>, range |-> <<>>, single |-> FALSE]
    [] h = "useComments" ->
         [table |-> "comments", eq |-> <<"post_id", k[1]>>,
          order |-> <<"created_at", "asc">>, range |-> <<>>, single |-> FALSE]
    [] h = "useAuth" ->
         [table |-> "profiles", eq |-> <<"id", k[1]>>,
          order |-> <<>>, range |-> <<>>, single |-> TRUE]

NewRequest(h, k) == [id |-> nextReq, hook |-> h, key |-> k, query |-> Query(h, k)]

\* --------------------------------------------------- tri-state transitions
\* a fetch start that replaces the state instead of spreading prev
StartStateClears(prev) == ResponseState(EmptyList, TRUE, Null)

\* setState((prev) => ({ ...prev, loading: true, error: null }))
StartState(prev) == [prev EXCEPT !.loading = TRUE, !.error = Null]

\* setState({ data, loading: false, error: null })
SuccessState(r) == ResponseState(Payload(r), FALSE, Null)

\* a catch block that records the error and leaves loading as it was
FailureStateKeepsLoading(h, prev) == [prev EXCEPT !.error = ErrorMessage(h)]

\* a catch block that replaces the state instead of spreading prev
FailureStateClears(h, prev) ==
  ResponseState(IF h = "usePost" THEN NullData ELSE EmptyList, FALSE,
                ErrorMessage(h))

\* the catch block of the accessor
FailureState(h, prev) ==
  IF h = "usePost"
    THEN ResponseState(NullData, FALSE, ErrorMessage(h))
    ELSE [prev EXCEPT !.loading = FALSE, !.error = ErrorMessage(h)]

\* the short-circuit of an absent key
AbsentState(h) ==
  IF h = "usePost" THEN ResponseState(NullData, FALSE, Null)
                   ELSE ResponseState(EmptyList, FALSE, Null)

\* the body of fetchPosts / fetchPost / fetchCategories / fetchComments up to
\* its first await, run for key k
Fetch(h, k) ==
  IF h \in {"usePost", "useComments"} /\ k[1] = Null
    THEN /\ state' = AbsentState(h)
         /\ UNCHANGED <<requests, nextReq>>
    ELSE /\ WithinBudget(1)
         /\ state' = StartState(state)
         /\ requests' = requests \cup {NewRequest(h, k)}
         /\ nextReq' = nextReq + 1

\* ----------------------------------------------------------- subscription
\* supabase.channel(`comments:${postId}`).on('postgres_changes', {...}, cb)
Channel(id) ==
  [topic |-> <<"comments", id>>, event |-> "INSERT", table |-> "comments",
   filter |-> <<"post_id", "eq", id>>]

\* a channel subscribed without its post filter
ListeningUnfiltered(ch, p) == ch.table = "comments"

\* an INSERT notification of a comment of post p passes the filter of ch
Listening(ch, p) == ch.filter = <<"post_id", "eq", p>>

\* a subscription made without the early return of an absent postId
SubscribeAlways(chs, id) == chs \cup {Channel(id)}

\* the effect's subscription: none for an absent postId
Subscribe(chs, id) == IF id = Null THEN chs ELSE chs \cup {Channel(id)}

\* an effect without its cleanup
KeepSubscribed(chs, id) == chs

\* the effect's cleanup
Unsubscribe(chs, id) == chs \ {Channel(id)}

\* ----------------------------------------------------------------- writes
\* a user object; the absent user (null) is the user without an id
User(id) == [id |-> id]
NoUser == User(Null)
Users == {User(id) : id \in UserIds}

NoPostSelected == [error |-> [message |-> "No post selected"]]
MustLogInToComment == [error |-> [message |-> "You must be logged in to comment"]]
MustLogIn == [error |-> [message |-> "You must be logged in"]]
NoResult == [error |-> [message |-> Null]]
BackendResult(outcome) == [error |-> [message |-> outcome]]

\* a call that skips the check of the looked-up user
AlwaysLoggedIn(usr) == TRUE

\* if (!user)
LoggedIn(usr) == usr # NoUser

\* the row addComment inserts
CommentRow(id, usr, content) ==
  [post_id |-> id, author_id |-> usr.id, content |-> content]

\* a delete matched on the comment id alone
DeleteMatchIdOnly(commentId, usr) == [id |-> commentId]

\* the predicate deleteComment matches
DeleteMatch(commentId, usr) == [id |-> commentId, author_id |-> usr.id]

\* the requests call c sends once its identity lookup resolved to user
IssuedBy(n, c, usr) ==
  IF ~LoggedIn(usr) THEN <<>>
  ELSE IF c.op = "addComment"
    THEN <<[call |-> n, table |-> "comments", kind |-> "insert",
            row |-> CommentRow(c.postId, usr, c.arg)]>>
    ELSE <<[call |-> n, table |-> "comments", kind |-> "delete",
            match |-> DeleteMatch(c.arg, usr)]>>

\* what call c returns when its lookup found no user
CapabilityError(c) ==
  IF c.op = "addComment" THEN MustLogInToComment ELSE MustLogIn

Call(op, arg, id, stage, result) ==
  [op |-> op, arg |-> arg, postId |-> id, stage |-> stage, user |-> NoUser,
   result |-> result]

\* ------------------------------------------------------------------ auth
\* a session of the backend; the absent session (null) carries no user
Session(u) == [user |-> u]
NoSession == Session(NoUser)
Sessions == {Session(u) : u \in Users}
AllSessions == Sessions \cup {NoSession}

\* a listener that keeps the user it has when the session is absent
SessionUserOrKept(s) == IF s = NoSession THEN user ELSE s.user

\* newSession?.user ?? null
SessionUser(s) == IF s = NoSession THEN NoUser ELSE s.user

\* the row of table profiles with the given id
ProfileRow(id) == [id |-> id, username |-> <<"name", id>>, display_name |-> Null]

\* the Profile built from a row: an empty optional column becomes undefined
ProfileOf(row) ==
  [id |-> row.id, username |-> row.username,
   display_name |-> IF row.display_name = Null THEN "undefined"
                    ELSE row.display_name]
NoProfile == [id |-> Null, username |-> <<>>, display_name |-> Null]

\* a cleanup that leaves the listener registered
KeepListener(l) == l

\* subscription.unsubscribe()
Deregister(l) == FALSE

\* the effect on [user]: getProfile for user u up to its first await
GetProfile(u) ==
  IF ~LoggedIn(u)
    THEN /\ profile' = NoProfile
         /\ UNCHANGED <<requests, nextReq>>
    ELSE /\ WithinBudget(1)
         /\ requests' = requests \cup {NewRequest("useAuth", <<u.id>>)}
         /\ nextReq' = nextReq + 1
         /\ UNCHANGED profile

\* setSession(s); setUser(s?.user ?? null); setLoading(false), and the
\* effect on [user] of the render that follows.  The user object of a
\* session may or may not be the object held (fresh), so the effect of an
\* equal user may or may not run again.
ApplySession(s, fresh) ==
  /\ session' = s
  /\ user' = SessionUser(s)
  /\ loading' = FALSE
  /\ IF SessionUser(s) # user \/ (fresh /\ SessionUser(s) # NoUser)
       THEN GetProfile(SessionUser(s))
       ELSE UNCHANGED <<profile, requests, nextReq>>

\* ---------------------------------------------------------------- Header
\* useState<User | null>(null), useState(true) of Header
HeaderState(u, l) == [user |-> u, loading |-> l]

\* what the unmount of Header instance i does to the registered listeners:
\* the effect callback returns nothing (the unsubscribe function is the
\* result of the async getUser, which nobody reads), so no cleanup runs
HeaderCleanup(ls, i) == ls

\* Header instance i is the mounted one: React applies its state updates
HeaderAlive(i) == phase = "mounted" /\ i = instance

\* ------------------------------------------------------------------- Init
Init ==
  /\ hook \in Hooks \cup {"useAuth", "Header"}
  /\ phase = "rendered"
  /\ state = InitialState(hook)
  /\ page \in (IF hook = "usePosts" THEN Pages ELSE {DefaultPage})
  /\ pageSize \in (IF hook = "usePosts" THEN PageSizes ELSE {DefaultPageSize})
  /\ slug \in (IF hook = "usePost" THEN Slugs \cup {Null} ELSE {Null})
  /\ postId \in (IF hook = "useComments" THEN PostIds \cup {Null} ELSE {Null})
  /\ requests = {}
  /\ nextReq = 1
  /\ channels = {}
  /\ pendingEvents = [p \in PostIds |-> 0]
  /\ currentUser \in (IF hook = "useComments" THEN Users \cup {NoUser} ELSE {NoUser})
  /\ calls = <<>>
  /\ writes = <<>>
  /\ session = NoSession
  /\ user = NoUser
  /\ profile = NoProfile
  /\ loading = TRUE
  /\ listener = FALSE
  /\ sessionRequest = "none"
  /\ authEvents = [s \in AllSessions |-> 0]
  /\ header = HeaderState(NoUser, TRUE)
  /\ instance = 0
  /\ headerPending = {}
  /\ headerListeners = {}

\* ---------------------------------------------------------------- actions
\* first commit: the effects of the accessor run
Mount ==
  /\ hook \in Hooks
  /\ phase = "rendered"
  /\ phase' = "mounted"
  /\ Fetch(hook, Key(hook))
  /\ channels' = IF hook = "useComments" THEN Subscribe(channels, postId) ELSE channels
  /\ UNCHANGED <<hook, page, pageSize, slug, postId, pendingEvents, writeVars>>
  /\ UNCHANGED authVars
  /\ UNCHANGED headerVars

\* usePosts re-rendered with other arguments
SetPage(p, ps) ==
  /\ hook = "usePosts" /\ phase = "mounted"
  /\ <<p, ps>> # <<page, pageSize>>
  /\ page' = p /\ pageSize' = ps
  /\ Fetch(hook, <<p, ps>>)
  /\ UNCHANGED <<hook, phase, slug, postId, channels, pendingEvents, writeVars>>
  /\ UNCHANGED authVars
  /\ UNCHANGED headerVars

\* usePost re-rendered with another slug
SetSlug(s) ==
  /\ hook = "usePost" /\ phase = "mounted"
  /\ s # slug
  /\ slug' = s
  /\ Fetch(hook, <<s>>)
  /\ UNCHANGED <<hook, phase, page, pageSize, postId, channels, pendingEvents, writeVars>>
  /\ UNCHANGED authVars
  /\ UNCHANGED headerVars

\* useComments re-rendered with another postId: cleanup of the old effect,
\* then the new effect
SetPostId(q) ==
  /\ hook = "useComments" /\ phase = "mounted"
  /\ q # postId
  /\ postId' = q
  /\ Fetch(hook, <<q>>)
  /\ channels' = Subscribe(Unsubscribe(channels, postId), q)
  /\ UNCHANGED <<hook, phase, page, pageSize, slug, pendingEvents, writeVars>>
  /\ UNCHANGED authVars
  /\ UNCHANGED headerVars

\* the owning component is destroyed: effect cleanups run
Unmount ==
  /\ phase = "mounted"
  /\ phase' = "destroyed"
  /\ channels' = Unsubscribe(channels, postId)
  /\ UNCHANGED <<hook, state, page, pageSize, slug, postId, requests, nextReq,
                 pendingEvents, writeVars>>
  /\ listener' = Deregister(listener)
  /\ UNCHANGED <<session, user, profile, loading, sessionRequest, authEvents>>
  /\ headerListeners' = HeaderCleanup(headerListeners, instance)
  /\ UNCHANGED <<header, instance, headerPending>>

\* what the backend can answer to request r: rows, an error result (for a
\* single-row query also on no row or several rows), or a rejected call
Causes(r) ==
  Outcomes \cup (IF r.query.single THEN {"no_rows", "multiple_rows"} ELSE {})

\* a continuation that drops the settlement of a superseded request
SettledIfLatest(r, outcome) ==
  IF phase = "destroyed" \/ r.id + 1 # nextReq THEN state
  ELSE IF outcome = "ok" THEN SuccessState(r)
  ELSE FailureState(r.hook, state)

\* the continuation of a fetch after its await; a state update of a
\* destroyed component is dropped
Settled(r, outcome) ==
  IF phase = "destroyed" THEN state
  ELSE IF outcome = "ok" THEN SuccessState(r)
  ELSE FailureState(r.hook, state)

Settle(r, outcome) ==
  /\ hook \in Hooks
  /\ r \in requests
  /\ requests' = requests \ {r}
  /\ state' = Settled(r, outcome)
  /\ UNCHANGED <<hook, phase, page, pageSize, slug, postId, nextReq, channels,
                 pendingEvents, writeVars>>
  /\ UNCHANGED authVars
  /\ UNCHANGED headerVars

\* some client inserted a comment of post p: the backend sends a notification
EmitInsert(p) ==
  /\ hook = "useComments"
  /\ pendingEvents[p] < MaxPending
  /\ pendingEvents' = [pendingEvents EXCEPT ![p] = @ + 1]
  /\ UNCHANGED <<hook, phase, state, page, pageSize, slug, postId, requests,
                 nextReq, channels, writeVars>>
  /\ UNCHANGED authVars
  /\ UNCHANGED headerVars

\* a notification arrives: the callback of a channel filtered on p runs
\* fetchComments of the effect that opened it
DeliverInsert(p) ==
  /\ hook = "useComments"
  /\ pendingEvents[p] > 0
  /\ pendingEvents' = [pendingEvents EXCEPT ![p] = @ - 1]
  /\ LET heard == {ch \in channels : Listening(ch, p)}
     IN IF heard = {}
          THEN UNCHANGED <<state, requests, nextReq>>
          ELSE \E ch \in heard : Fetch("useComments", <<ch.topic[2]>>)
  /\ UNCHANGED <<hook, phase, page, pageSize, slug, postId, channels, writeVars>>
  /\ UNCHANGED authVars
  /\ UNCHANGED headerVars

\* the backend identity changes (sign-in, sign-out, another account)
AuthChange(u) ==
  /\ hook = "useComments"
  /\ u # currentUser
  /\ currentUser' = u
  /\ UNCHANGED <<hook, phase, state, page, pageSize, slug, postId, requests,
                 nextReq, channels, pendingEvents, calls, writes>>
  /\ UNCHANGED authVars
  /\ UNCHANGED headerVars

\* addComment(content) up to its first await
AddCommentCall(content) ==
  /\ hook = "useComments" /\ phase = "mounted"
  /\ WithinBudget(2)
  /\ calls' = Append(calls,
                IF postId = Null
                  THEN Call("addComment", content, postId, "returned", NoPostSelected)
                  ELSE Call("addComment", content, postId, "getUser", NoResult))
  /\ UNCHANGED <<hook, phase, state, page, pageSize, slug, postId, requests,
                 nextReq, channels, pendingEvents, currentUser, writes>>
  /\ UNCHANGED authVars
  /\ UNCHANGED headerVars

\* deleteComment(commentId) up to its first await
DeleteCommentCall(commentId) ==
  /\ hook = "useComments" /\ phase = "mounted"
  /\ WithinBudget(2)
  /\ calls' = Append(calls, Call("deleteComment", commentId, Null, "getUser", NoResult))
  /\ UNCHANGED <<hook, phase, state, page, pageSize, slug, postId, requests,
                 nextReq, channels, pendingEvents, currentUser, writes>>
  /\ UNCHANGED authVars
  /\ UNCHANGED headerVars

\* supabase.auth.getUser() of call n resolves; the call continues to its
\* return statement
GetUserResolve(n) ==
  /\ n \in DOMAIN calls
  /\ calls[n].stage = "getUser"
  /\ LET usr == currentUser
         sent == IssuedBy(n, calls[n], usr)
     IN /\ writes' = writes \o sent
        /\ calls' = [calls EXCEPT ![n] =
                       IF sent = <<>>
                         THEN [@ EXCEPT !.user = usr, !.stage = "returned",
                                        !.result = CapabilityError(calls[n])]
                         ELSE [@ EXCEPT !.user = usr, !.stage = "write"]]
  /\ UNCHANGED <<hook, phase, state, page, pageSize, slug, postId, requests,
                 nextReq, channels, pendingEvents, currentUser>>
  /\ UNCHANGED authVars
  /\ UNCHANGED headerVars

\* the backend answers the write of call n; the call's promise resolves to
\* that answer, or rejects when the request itself is rejected.  A performed
\* insert is announced to the realtime subscribers.
WriteSettle(n, outcome) ==
  /\ n \in DOMAIN calls
  /\ calls[n].stage = "write"
  /\ calls' = [calls EXCEPT ![n] =
                 IF outcome = "throw"
                   THEN [@ EXCEPT !.stage = "rejected"]
                   ELSE [@ EXCEPT !.stage = "returned",
                                  !.result = BackendResult(outcome)]]
  /\ IF outcome = "ok" /\ calls[n].op = "addComment"
       THEN /\ pendingEvents[calls[n].postId] < MaxPending
            /\ pendingEvents' = [pendingEvents EXCEPT ![calls[n].postId] = @ + 1]
       ELSE UNCHANGED pendingEvents
  /\ UNCHANGED <<hook, phase, state, page, pageSize, slug, postId, requests,
                 nextReq, channels, currentUser, writes>>
  /\ UNCHANGED authVars
  /\ UNCHANGED headerVars

\* first commit of useAuth: getSession is requested, the listener is
\* registered, and getProfile runs for the initial user (null)
MountAuth ==
  /\ hook = "useAuth"
  /\ phase = "rendered"
  /\ phase' = "mounted"
  /\ sessionRequest' = "pending"
  /\ listener' = TRUE
  /\ GetProfile(user)
  /\ UNCHANGED <<hook, state, page, pageSize, slug, postId, channels,
                 pendingEvents, writeVars, session, user, loading, authEvents>>
  /\ UNCHANGED headerVars

\* getSession() resolves with session s: its then-callback runs
GetSessionResolve(s) ==
  /\ hook = "useAuth"
  /\ sessionRequest = "pending"
  /\ sessionRequest' = "resolved"
  /\ IF phase = "destroyed"
       THEN UNCHANGED <<session, user, loading, profile, requests, nextReq>>
       ELSE \E fresh \in BOOLEAN : ApplySession(s, fresh)
  /\ UNCHANGED <<hook, phase, state, page, pageSize, slug, postId, channels,
                 pendingEvents, writeVars, listener, authEvents>>
  /\ UNCHANGED headerVars

\* getSession() rejects: the promise has no rejection handler
GetSessionReject ==
  /\ hook = "useAuth"
  /\ sessionRequest = "pending"
  /\ sessionRequest' = "rejected"
  /\ UNCHANGED <<hook, phase, state, page, pageSize, slug, postId, requests,
                 nextReq, channels, pendingEvents, writeVars, session, user,
                 profile, loading, listener, authEvents>>
  /\ UNCHANGED headerVars

\* the backend's auth state changes to session s: a notification is sent
EmitAuth(s) ==
  /\ hook \in {"useAuth", "Header"}
  /\ authEvents[s] < MaxPending
  /\ authEvents' = [authEvents EXCEPT ![s] = @ + 1]
  /\ UNCHANGED <<hook, phase, state, page, pageSize, slug, postId, requests,
                 nextReq, channels, pendingEvents, writeVars, session, user,
                 profile, loading, listener, sessionRequest>>
  /\ UNCHANGED headerVars

\* a notification of session s arrives: the registered listener runs
DeliverAuth(s) ==
  /\ hook = "useAuth"
  /\ authEvents[s] > 0
  /\ authEvents' = [authEvents EXCEPT ![s] = @ - 1]
  /\ IF listener
       THEN \E fresh \in BOOLEAN : ApplySession(s, fresh)
       ELSE UNCHANGED <<session, user, loading, profile, requests, nextReq>>
  /\ UNCHANGED <<hook, phase, state, page, pageSize, slug, postId, channels,
                 pendingEvents, writeVars, listener, sessionRequest>>
  /\ UNCHANGED headerVars

\* the continuation of getProfile after its await: an error result returns
\* and a thrown error is caught, both after logging only
ProfileSettled(r, outcome) ==
  IF phase = "destroyed" THEN profile
  ELSE IF outcome = "ok" THEN ProfileOf(ProfileRow(r.key[1]))
  ELSE profile

SettleProfile(r, outcome) ==
  /\ hook = "useAuth"
  /\ r \in requests
  /\ requests' = requests \ {r}
  /\ profile' = ProfileSettled(r, outcome)
  /\ UNCHANGED <<hook, phase, state, page, pageSize, slug, postId, nextReq,
                 channels, pendingEvents, writeVars, session, user, loading,
                 listener, sessionRequest, authEvents>>
  /\ UNCHANGED headerVars

\* supabase.auth.getUser() of call n rejects: the call has no try/catch and
\* its promise rejects
GetUserReject(n) ==
  /\ n \in DOMAIN calls
  /\ calls[n].stage = "getUser"
  /\ calls' = [calls EXCEPT ![n] = [@ EXCEPT !.stage = "rejected"]]
  /\ UNCHANGED <<hook, phase, state, page, pageSize, slug, postId, requests,
                 nextReq, channels, pendingEvents, currentUser, writes, authVars>>
  /\ UNCHANGED headerVars

\* first commit of a Header instance: its effect calls getUser(), which
\* requests the session
MountHeader ==
  /\ hook = "Header"
  /\ phase = "rendered"
  /\ WithinBudget(1)
  /\ phase' = "mounted"
  /\ instance' = nextReq
  /\ headerPending' = headerPending \cup {nextReq}
  /\ nextReq' = nextReq + 1
  /\ UNCHANGED <<hook, state, page, pageSize, slug, postId, requests, channels,
                 pendingEvents, writeVars, authVars, header, headerListeners>>

\* getSession() of instance i resolves with session s: getUser continues,
\* sets user and loading and registers the auth-state listener
HeaderSessionResolve(i, s) ==
  /\ hook = "Header"
  /\ i \in headerPending
  /\ headerPending' = headerPending \ {i}
  /\ header' = IF HeaderAlive(i) THEN HeaderState(SessionUser(s), FALSE) ELSE header
  /\ headerListeners' = headerListeners \cup {i}
  /\ UNCHANGED <<hook, phase, state, page, pageSize, slug, postId, requests,
                 nextReq, channels, pendingEvents, writeVars, authVars, instance>>

\* getSession() of instance i rejects: getUser stops before the listener
HeaderSessionReject(i) ==
  /\ hook = "Header"
  /\ i \in headerPending
  /\ headerPending' = headerPending \ {i}
  /\ UNCHANGED <<hook, phase, state, page, pageSize, slug, postId, requests,
                 nextReq, channels, pendingEvents, writeVars, authVars, header,
                 instance, headerListeners>>

\* a notification of session s arrives: every registered Header listener
\* calls setUser; React applies it for the mounted instance only
DeliverHeaderAuth(s) ==
  /\ hook = "Header"
  /\ authEvents[s] > 0
  /\ authEvents' = [authEvents EXCEPT ![s] = @ - 1]
  /\ header' = IF \E i \in headerListeners : HeaderAlive(i)
                 THEN [header EXCEPT !.user = SessionUser(s)]
                 ELSE header
  /\ UNCHANGED <<hook, phase, state, page, pageSize, slug, postId, requests,
                 nextReq, channels, pendingEvents, writeVars, session, user,
                 profile, loading, listener, sessionRequest, instance,
                 headerPending, headerListeners>>

\* Header is rendered again after an unmount: a new instance
RemountHeader ==
  /\ hook = "Header"
  /\ phase = "destroyed"
  /\ WithinBudget(1)
  /\ phase' = "rendered"
  /\ header' = HeaderState(NoUser, TRUE)
  /\ instance' = 0
  /\ UNCHANGED <<hook, state, page, pageSize, slug, postId, requests, nextReq,
                 channels, pendingEvents, writeVars, authVars, headerPending,
                 headerListeners>>

Next ==
  \/ Mount
  \/ \E p \in Pages, ps \in PageSizes : SetPage(p, ps)
  \/ \E s \in Slugs \cup {Null} : SetSlug(s)
  \/ \E q \in PostIds \cup {Null} : SetPostId(q)
  \/ Unmount
  \/ \E r \in requests : \E o \in Causes(r) : Settle(r, o)
  \/ \E p \in PostIds : EmitInsert(p)
  \/ \E p \in PostIds : DeliverInsert(p)
  \/ \E u \in Users \cup {NoUser} : AuthChange(u)
  \/ \E c \in Contents : AddCommentCall(c)
  \/ \E k \in CommentIds : DeleteCommentCall(k)
  \/ \E n \in 1..MaxOps : GetUserResolve(n)
  \/ \E n \in 1..MaxOps, o \in Outcomes : WriteSettle(n, o)
  \/ \E n \in 1..MaxOps : GetUserReject(n)
  \/ MountAuth
  \/ \E s \in AllSessions : GetSessionResolve(s)
  \/ GetSessionReject
  \/ \E s \in AllSessions : EmitAuth(s)
  \/ \E s \in AllSessions : DeliverAuth(s)
  \/ \E r \in requests : \E o \in Causes(r) : SettleProfile(r, o)
  \/ MountHeader
  \/ \E i \in 1..MaxOps, s \in AllSessions : HeaderSessionResolve(i, s)
  \/ \E i \in 1..MaxOps : HeaderSessionReject(i)
  \/ \E s \in AllSessions : DeliverHeaderAuth(s)
  \/ RemountHeader

Spec == Init /\ [][Next]_vars

TypeOK ==
  /\ hook \in Hooks \cup {"useAuth", "Header"}
  /\ phase \in {"rendered", "mounted", "destroyed"}
  /\ state.loading \in BOOLEAN
  /\ nextReq \in 1..(MaxOps + 1)

\* =================================================================== claims
Active(h) == hook = h /\ phase = "mounted"

\* the requests started, and those settled, by the step
StartedNow == requests' \ requests
SettledNow == requests \ requests'

\* the notification of post p is delivered by the step
Delivered(p) == pendingEvents'[p] = pendingEvents[p] - 1

ExactlyOne(a, b, c) ==
  \/ a /\ ~b /\ ~c
  \/ ~a /\ b /\ ~c
  \/ ~a /\ ~b /\ c

\* C1: in every reachable state of every accessor exactly one of "loading",
\* "error is set" and "settled without error" holds; in particular loading
\* and a non-null error never hold together.
C1_TriStateExclusive ==
  ExactlyOne(state.loading,
             state.error # Null,
             state.loading = FALSE /\ state.error = Null)

\* C1 witness: a fetch has failed while another fetch of the same accessor
\* is still in flight.
C1_Witness ==
  /\ phase = "mounted"
  /\ state.error # Null
  /\ requests # {}

\* C4: the delivery of an INSERT notification for post p starts exactly one
\* fetch of the comments of p when the Comment Accessor is active for p, and
\* starts no fetch otherwise.
C4_EventRefetch ==
  [][\A p \in PostIds :
       Delivered(p) =>
         IF Active("useComments") /\ postId = p
           THEN /\ Cardinality(StartedNow) = 1
                /\ \A r \in StartedNow :
                     /\ r.hook = "useComments"
                     /\ r.key = <<p>>
                     /\ r.query.eq = <<"post_id", p>>
                /\ nextReq' = nextReq + 1
           ELSE /\ StartedNow = {}
                /\ nextReq' = nextReq]_vars

\* C4 witness: two consecutive fetches of the same post are in flight; the
\* second can only come from a notification (a re-render needs another key).
C4_Witness ==
  /\ Active("useComments")
  /\ \E r1, r2 \in requests :
       /\ r2.id = r1.id + 1
       /\ r1.key = r2.key
       /\ r2.key = <<postId>>

\* C5: a destroyed Comment Accessor holds no channel, and from then on no
\* step starts a fetch or changes the tri-state, a delivered notification
\* included.
C5_TeardownSilences ==
  /\ [](phase = "destroyed" => channels = {})
  /\ [][phase = "destroyed" =>
         /\ channels' = {}
         /\ state' = state
         /\ StartedNow = {}
         /\ nextReq' = nextReq]_vars

\* C5 witness: the accessor of post postId is destroyed and a notification
\* for that post is still to be delivered.
C5_Witness ==
  /\ hook = "useComments"
  /\ phase = "destroyed"
  /\ postId # Null
  /\ pendingEvents[postId] > 0

\* C6: a Comment Accessor holds at most one channel; it holds one exactly
\* when it is mounted with a non-null postId, and that channel is the one of
\* the current postId.
C6_OneSubscription ==
  /\ Cardinality(channels) <= 1
  /\ (channels # {}) <=> (Active("useComments") /\ postId # Null)
  /\ \A ch \in channels : ch = Channel(postId)

\* C6 witness: the postId was changed from one post to another (a fetch of
\* the former post is still in flight) and the channel is the new post's.
C6_Witness ==
  /\ Active("useComments")
  /\ postId # Null
  /\ channels = {Channel(postId)}
  /\ \E r \in requests : r.key # <<postId>>

\* C9: every request of usePosts asks for published posts only, ordered by
\* published_at descending, in the inclusive window
\* [(page-1)*pageSize, page*pageSize - 1] of the page and pageSize it was
\* issued for.
C9_PostsWindow ==
  \A r \in requests :
    r.hook = "usePosts" =>
      /\ r.query.table = "posts"
      /\ r.query.eq = <<"published", "true">>
      /\ r.query.order = <<"published_at", "desc">>
      /\ r.query.range = <<(r.key[1] - 1) * r.key[2], r.key[1] * r.key[2] - 1>>

\* C9 witness: a request for a page after the first is in flight.
C9_Witness ==
  \E r \in requests :
    /\ r.hook = "usePosts"
    /\ r.key[1] > 1
    /\ r.key = <<page, pageSize>>

\* the requests call n has sent
SentBy(n) == {i \in DOMAIN writes : writes[i].call = n}

\* C2: every delete request of deleteComment(commentId) is matched on both
\* id = commentId and author_id = the id of the user its own identity lookup
\* returned; a call whose lookup found no user sends nothing and returns
\* {message: 'You must be logged in'}.
C2_DeleteMatchesAuthor ==
  \A n \in DOMAIN calls :
    calls[n].op = "deleteComment" =>
      CASE calls[n].stage = "getUser" -> SentBy(n) = {}
        [] calls[n].stage = "rejected" /\ calls[n].user = NoUser -> SentBy(n) = {}
        [] calls[n].user = NoUser ->
             /\ SentBy(n) = {}
             /\ calls[n].stage = "returned"
             /\ calls[n].result = [error |-> [message |-> "You must be logged in"]]
        [] OTHER ->
             /\ Cardinality(SentBy(n)) = 1
             /\ \A i \in SentBy(n) :
                  /\ writes[i].kind = "delete"
                  /\ writes[i].table = "comments"
                  /\ DOMAIN writes[i].match = {"id", "author_id"}
                  /\ writes[i].match.id = calls[n].arg
                  /\ writes[i].match.author_id = calls[n].user.id

\* C2 witness: a delete was sent for the user its lookup found, who is no
\* longer the current identity.
C2_Witness ==
  \E n \in DOMAIN calls :
    /\ calls[n].op = "deleteComment"
    /\ calls[n].user # NoUser
    /\ calls[n].user # currentUser
    /\ SentBy(n) # {}

\* the identity lookup of call n resolves in this step
LookedUpNow(n) ==
  /\ n \in DOMAIN calls
  /\ calls[n].stage = "getUser"
  /\ calls'[n].stage \in {"write", "returned"}

\* C3: addComment(content) uses the identity its own lookup finds at the
\* time it resolves; a call that finds no user returns an error and inserts
\* nothing; a call that finds a user sends exactly one insert of the row
\* {post_id: postId of the call, author_id: that user's id, content}; a call
\* without postId returns an error and inserts nothing.
C3_AddCommentState ==
  \A n \in DOMAIN calls :
    calls[n].op = "addComment" =>
      CASE calls[n].postId = Null ->
             /\ SentBy(n) = {}
             /\ calls[n].stage = "returned"
             /\ calls[n].result = [error |-> [message |-> "No post selected"]]
        [] calls[n].stage = "getUser" -> SentBy(n) = {}
        [] calls[n].stage = "rejected" /\ calls[n].user = NoUser -> SentBy(n) = {}
        [] calls[n].user = NoUser ->
             /\ SentBy(n) = {}
             /\ calls[n].stage = "returned"
             /\ calls[n].result =
                  [error |-> [message |-> "You must be logged in to comment"]]
        [] OTHER ->
             /\ Cardinality(SentBy(n)) = 1
             /\ \A i \in SentBy(n) :
                  /\ writes[i].kind = "insert"
                  /\ writes[i].table = "comments"
                  /\ writes[i].row = [post_id |-> calls[n].postId,
                                      author_id |-> calls[n].user.id,
                                      content |-> calls[n].arg]

C3_AddComment ==
  /\ []C3_AddCommentState
  /\ [][\A n \in 1..MaxOps :
          LookedUpNow(n) =>
            /\ calls'[n].user = currentUser
            /\ calls'[n].postId = calls[n].postId]_vars

\* C3 witness: an insert was sent for the user found by the lookup, who was
\* not the identity when the call was made or is not the identity any more.
C3_Witness ==
  \E n \in DOMAIN calls :
    /\ calls[n].op = "addComment"
    /\ calls[n].user # NoUser
    /\ calls[n].user # currentUser
    /\ \E i \in SentBy(n) : writes[i].row.author_id = calls[n].user.id

\* C7 (as claimed): once every request has settled and the accessor shows
\* data without error, the data is the result for the current dependency
\* key; no settlement for an old key survives the key change.
C7_DataOfCurrentKey ==
  (/\ phase = "mounted"
   /\ requests = {}
   /\ state.loading = FALSE
   /\ state.error = Null
   /\ state.data.kind = "rows")
  => state.data.key = Key(hook)

\* C8: every settlement of a fetch of a mounted Comment Accessor writes the
\* tri-state, whatever the order in which the fetches were started: a
\* success installs that request's payload, a failure the error over the
\* data held; so the tri-state after two overlapping fetches is the one of
\* whichever settled last.
C8_LastSettlementWins ==
  [][\A r \in SettledNow :
       Active("useComments") =>
         \/ state' = [data |-> Payload(r), loading |-> FALSE, error |-> Null]
         \/ state' = [data |-> state.data, loading |-> FALSE,
                      error |-> "Failed to load comments"]]_vars

\* C8 witness: every fetch has settled and the data is the payload of an
\* older request for the current post, although a newer request was started
\* and has settled too.
C8_Witness ==
  /\ Active("useComments")
  /\ requests = {}
  /\ state.loading = FALSE
  /\ state.error = Null
  /\ state.data.kind = "rows"
  /\ state.data.key = <<postId>>
  /\ state.data.req + 1 < nextReq

\* C10 (as claimed): whenever usePost is mounted with an absent slug, the
\* tri-state is {data: null, loading: false, error: null}.
C10_AbsentSlugSettled ==
  (Active("usePost") /\ slug = Null)
    => state = [data |-> NullData, loading |-> FALSE, error |-> Null]

FixedMessage ==
  [usePosts |-> "Failed to load posts", usePost |-> "Failed to load post",
   useCategories |-> "Failed to load categories",
   useComments |-> "Failed to load comments"]

\* the step settles request r of the mounted accessor with a failure (a
\* success installs the payload of r, which no earlier state holds)
FailedNow(r) ==
  /\ r \in SettledNow
  /\ hook \in Hooks
  /\ phase = "mounted"
  /\ state'.data # Payload(r)

\* C11: a failing settlement of a fetch of a mounted accessor, whatever its
\* cause, leaves loading = false and error = the accessor's fixed string.
C11_GenericError ==
  [][\A r \in requests :
       FailedNow(r) =>
         /\ state'.loading = FALSE
         /\ state'.error = FixedMessage[hook]]_vars

\* C11 witness: a single-row fetch of usePost has failed for the current
\* slug and the accessor shows the fixed string.
C11_Witness ==
  /\ Active("usePost")
  /\ slug # Null
  /\ requests = {}
  /\ state.error = "Failed to load post"
  /\ state.loading = FALSE

\* C17: a failing settlement leaves the data of usePosts, useCategories and
\* useComments as it was, and settles usePost to
\* {data: null, loading: false, error: 'Failed to load post'}.
C17_FailureData ==
  [][\A r \in requests :
       FailedNow(r) =>
         IF hook = "usePost"
           THEN state' = [data |-> NullData, loading |-> FALSE,
                          error |-> "Failed to load post"]
           ELSE state'.data = state.data]_vars

\* C17 witness: a list accessor shows an error over rows fetched earlier.
C17_Witness ==
  /\ hook \in {"usePosts", "useComments"}
  /\ phase = "mounted"
  /\ state.error # Null
  /\ state.data.kind = "rows"

\* C18 (as claimed): a mounted Comment Accessor with a non-null postId has
\* loading = true whenever one of its fetches is in flight.
C18_LoadingWhileInFlight ==
  (Active("useComments") /\ postId # Null /\ requests # {})
    => state.loading = TRUE

\* the step is a step of an addComment or deleteComment call
CallStep == calls' # calls \/ writes' # writes

\* C16 (as claimed): no step of addComment or deleteComment changes the
\* tri-state, and data changes only in a step that settles a fetch.
C16_DataOnlyOnSettle ==
  [][/\ CallStep => state' = state
     /\ (hook = "useComments" /\ state'.data # state.data) => SettledNow # {}]_vars

\* C16 (amended): no step of addComment or deleteComment changes the
\* tri-state or starts a fetch; data changes only in a step that settles a
\* fetch or in the step in which postId becomes absent, which empties it.
C16_DataOnSettleOrAbsent ==
  [][/\ CallStep => (state' = state /\ StartedNow = {})
     /\ (hook = "useComments" /\ state'.data # state.data) =>
          \/ SettledNow # {}
          \/ (postId # Null /\ postId' = Null /\ state'.data = EmptyList)]_vars

\* C16 witness: an addComment has been answered by the backend, its
\* notification is still in transit and the data shown is still the payload
\* fetched before the call.
C16_Witness ==
  /\ Active("useComments")
  /\ \E n \in DOMAIN calls :
       /\ calls[n].op = "addComment"
       /\ calls[n].stage = "returned"
       /\ calls[n].result = BackendResult("ok")
       /\ pendingEvents[calls[n].postId] > 0
  /\ state.data.kind = "rows"
  /\ requests = {}

\* the notification of session s is delivered by the step
AuthDelivered(s) == authEvents'[s] = authEvents[s] - 1

\* C12: a notification delivered while useAuth's listener is registered
\* sets session to the notified session and user to its user (or null);
\* a change of user starts one profile lookup keyed by the new user's id,
\* or sets profile to null when the user becomes null.
C12_NotificationApplied ==
  [][\A s \in AllSessions :
       (AuthDelivered(s) /\ listener) =>
         /\ session' = s
         /\ user' = (IF s = NoSession THEN NoUser ELSE s.user)
         /\ user' # user =>
              IF user' = NoUser
                THEN profile' = NoProfile /\ StartedNow = {}
                ELSE /\ Cardinality(StartedNow) = 1
                     /\ \A r \in StartedNow :
                          /\ r.query.table = "profiles"
                          /\ r.query.eq = <<"id", user'.id>>
                          /\ r.query.single]_vars

\* C12 witness: after a notification of another user the lookup of that
\* user's profile is in flight while the profile held is the former user's.
C12_Witness ==
  /\ Active("useAuth")
  /\ user # NoUser
  /\ session = Session(user)
  /\ profile # NoProfile
  /\ profile.id # user.id
  /\ \E r \in requests : r.key = <<user.id>>

\* C13 (as claimed): when a profile lookup for the current user settles in
\* a mounted useAuth, profile is afterwards that user's profile (success)
\* or null (failure), and session, user and loading are unchanged.
C13_FailedLookupLeavesNull ==
  [][\A r \in SettledNow :
       (Active("useAuth") /\ r.key = <<user.id>>) =>
         /\ profile' = NoProfile \/ profile'.id = user.id
         /\ UNCHANGED <<session, user, loading>>]_vars

\* C14: a destroyed useAuth has no listener registered, and from then on no
\* step, a delivered notification included, changes session, user or
\* loading.
C14_AuthTeardown ==
  /\ [](phase = "destroyed" => ~listener)
  /\ [][phase = "destroyed" =>
         /\ ~listener'
         /\ UNCHANGED <<session, user, loading>>]_vars

\* C14 witness: useAuth is destroyed and a notification of a session other
\* than the one held is still to be delivered.
C14_Witness ==
  /\ hook = "useAuth"
  /\ phase = "destroyed"
  /\ \E s \in AllSessions : authEvents[s] > 0 /\ s # session

\* C15 (as claimed): no operation ends in a rejection that escapes it:
\* neither the promise of an addComment / deleteComment call nor useAuth's
\* getSession chain rejects.
C15_NoEscapingRejection ==
  /\ \A n \in DOMAIN calls : calls[n].stage # "rejected"
  /\ sessionRequest # "rejected"

\* C19 (as claimed): once a notification has been applied (loading is
\* false from then on), session and user change only when a notification
\* is delivered; the resolution of getSession does not replace them.
C19_NotificationIsLast ==
  [][(hook = "useAuth" /\ loading = FALSE
        /\ (session' # session \/ user' # user))
       => \E s \in AllSessions : AuthDelivered(s)]_vars

\* C20 (as claimed): whenever no profile lookup of a mounted useAuth is in
\* flight, profile is null or the profile of the current user; it is null
\* when user is null.
C20_ProfileOfCurrentUser ==
  (Active("useAuth") /\ requests = {})
    => (profile = NoProfile \/ (user # NoUser /\ profile.id = user.id))

\* C21 (as claimed): every auth-state listener registered by Header belongs
\* to the Header instance that is mounted: the listener of an unmounted
\* Header is unsubscribed, so no notification reaches it, and at most one
\* Header listener is live however often Header is mounted and unmounted.
C21_HeaderListenerReleased ==
  /\ \A i \in headerListeners : HeaderAlive(i)
  /\ Cardinality(headerListeners) <= 1
====
